---- MODULE Spec2Model ----
(***************************************************************************)
(* A model of the batch ETL pipeline of src/etl.py: clean_events,          *)
(* join_and_filter, create_daily_summary, write_parquet and main.          *)
(*                                                                         *)
(* A DataFrame is a record [columns, rows]: the set of its column names    *)
(* and the sequence of its rows, each row a function from the column names *)
(* to cell values.  A column name is the sequence of its dot-separated     *)
(* parts (json_normalize flattens {"metadata": {"source": ..}} to the      *)
(* column "metadata.source", here <<"metadata", "source">>).               *)
(***************************************************************************)
EXTENDS Integers, Sequences, FiniteSets, TLC

VARIABLES
    pc,             \* the step main is about to execute, or "done" / "aborted"
    trace,          \* the steps executed so far, each with its outcome
    events,         \* main's local events (the raw event frame)
    users,          \* main's local users
    clean,          \* main's local clean
    enriched,       \* main's local enriched
    daily_summary,  \* main's local daily_summary
    counts,         \* the five counts clean_events printed
    filtered,       \* the count join_and_filter printed
    files,          \* what this run has made of the two output paths
    rerun           \* a second call of clean_events, on the output of the first

vars == <<pc, trace, events, users, clean, enriched, daily_summary, counts,
          filtered, files, rerun>>

----------------------------------------------------------------------------
(* Bounds of the model *)

\* longest raw event table given to clean_events alone
MaxEvents == 3
\* longest raw event table of a whole run of main
MaxRunEvents == 2
\* longest user table of a whole run of main
MaxRunUsers == 2

----------------------------------------------------------------------------
(* Cell values *)

None == [t |-> "None"]
NaT == [t |-> "NaT"]
Number(n) == [t |-> "number", n |-> n]
Str(s) == [t |-> "str", s |-> s]
\* a date-time: the calendar date as the number yyyymmdd, the time of day as hhmmss
Timestamp(d, h) == [t |-> "datetime", date |-> d, time |-> h]
Date(d) == [t |-> "date", date |-> d]

\* pandas isna(): None, NaN and NaT are all missing values
isna(v) == v \in {None, NaT}

\* a parser that reads strings only: a value that is a date-time already is
\* not a string it can read
to_datetime_strings_only(v) ==
    IF v.t # "str" THEN NaT
    ELSE CASE v.s = "2024-01-01T10:00:00Z"      -> Timestamp(20240101, 100000)
           [] v.s = "2024-01-01T10:00:00+00:00" -> Timestamp(20240101, 100000)
           [] v.s = "2024-01-01T23:00:00Z"      -> Timestamp(20240101, 230000)
           [] v.s = "2024-01-02T00:00:00Z"      -> Timestamp(20240102, 0)
           [] v.s = "2023-01-01"                -> Timestamp(20230101, 0)
           [] v.s = "2023-02-01"                -> Timestamp(20230201, 0)
           [] OTHER                             -> NaT

\* pd.to_datetime(value, errors="coerce") on one cell: a date-time stays as
\* it is, a string that reads as a date-time becomes it, anything else NaT.
\* Two spellings of one instant ("Z" and "+00:00") parse to the same value.
to_datetime(v) ==
    IF v.t = "datetime" THEN v
    ELSE IF v.t # "str" THEN NaT
    ELSE CASE v.s = "2024-01-01T10:00:00Z"      -> Timestamp(20240101, 100000)
           [] v.s = "2024-01-01T10:00:00+00:00" -> Timestamp(20240101, 100000)
           [] v.s = "2024-01-01T23:00:00Z"      -> Timestamp(20240101, 230000)
           [] v.s = "2024-01-02T00:00:00Z"      -> Timestamp(20240102, 0)
           [] v.s = "2023-01-01"                -> Timestamp(20230101, 0)
           [] v.s = "2023-02-01"                -> Timestamp(20230201, 0)
           [] OTHER                             -> NaT

\* the date-time itself, time of day and all
dt_keep_time(v) == v

\* Series.dt.date on one cell: the calendar date of a date-time
dt_date(v) == IF v.t = "datetime" THEN Date(v.date) ELSE NaT

----------------------------------------------------------------------------
(* Column names *)

user_id == <<"user_id">>
timestamp == <<"timestamp">>
event_type == <<"event_type">>
metadata_source == <<"metadata", "source">>
country == <<"country">>
signup_date == <<"signup_date">>
event_date == <<"event_date">>
event_count == <<"event_count">>

\* c.startswith("metadata.")
IsMetadataCol(c) == Len(c) > 1 /\ c[1] = "metadata"

----------------------------------------------------------------------------
(* DataFrame operations *)

DataFrame(cols, rows) == [columns |-> cols, rows |-> rows]

\* a call that has not happened yet, and one that raised
NotRun == [state |-> "not run"]
Raised == [state |-> "raised"]

\* rows i of df with keep[i], in order
RECURSIVE Take(_, _, _)
Take(rows, keep, i) ==
    IF i > Len(rows) THEN <<>>
    ELSE (IF i \in keep THEN <<rows[i]>> ELSE <<>>) \o Take(rows, keep, i + 1)

\* dropna with its result thrown away: df.dropna(subset=[c]) without df =
dropna_result_unused(df, c) == df

\* df.dropna(subset=[c])
dropna(df, c) ==
    DataFrame(df.columns,
              Take(df.rows, {i \in DOMAIN df.rows : ~isna(df.rows[i][c])}, 1))

\* df[c].isna().count(): the number of rows
isna_count(df, c) == Len(df.rows)

\* df[c].isna().sum()
isna_sum(df, c) == Cardinality({i \in DOMAIN df.rows : isna(df.rows[i][c])})

\* df[c] = pd.to_datetime(df[c], errors="coerce")
parse_column(df, c) ==
    DataFrame(df.columns,
              [i \in DOMAIN df.rows |->
                  [df.rows[i] EXCEPT ![c] = to_datetime(df.rows[i][c])]])

\* rows r and s agree on every column of subset
SameOn(r, s, subset) == \A c \in subset : r[c] = s[c]

\* df.drop_duplicates(subset=subset), keep="first"
drop_duplicates(df, subset) ==
    DataFrame(df.columns,
              Take(df.rows,
                   {i \in DOMAIN df.rows :
                       \A j \in 1..(i - 1) : ~SameOn(df.rows[i], df.rows[j], subset)},
                   1))

----------------------------------------------------------------------------
(* clean_events *)

\* metadata_cols = [c for c in df.columns if c.startswith("metadata.")]
metadata_cols(df) == {c \in df.columns : IsMetadataCol(c)}

\* deduplication on every column, the metadata columns too
dedupe_all_cols(df) == df.columns

\* dedupe_cols = [c for c in df.columns if c not in metadata_cols]
dedupe_cols(df) == {c \in df.columns : c \notin metadata_cols(df)}

\* The call clean_events(df): the frame it returns and the five counts it
\* prints, or Raised when df["user_id"] or df["timestamp"] is a KeyError.
clean_events(df) ==
    IF ~({user_id, timestamp} \subseteq df.columns) THEN Raised
    ELSE
      LET dropped_users == dropna(df, user_id)
          parsed == parse_column(dropped_users, timestamp)
          dropped_timestamps == dropna(parsed, timestamp)
          before_dedupe == Len(dropped_timestamps.rows)
          deduped == drop_duplicates(dropped_timestamps, dedupe_cols(dropped_timestamps))
      IN  [state |-> "returned",
           df |-> deduped,
           initial_count |-> Len(df.rows),
           missing_user_id_count |-> isna_sum(df, user_id),
           invalid_timestamps_count |-> isna_sum(parsed, timestamp),
           deduped_count |-> before_dedupe - Len(deduped.rows),
           remaining |-> Len(deduped.rows)]

\* the five numbers clean_events prints
Counts(r) == [initial_count |-> r.initial_count,
              missing_user_id_count |-> r.missing_user_id_count,
              invalid_timestamps_count |-> r.invalid_timestamps_count,
              deduped_count |-> r.deduped_count,
              remaining |-> r.remaining]

----------------------------------------------------------------------------
(* join_and_filter *)

\* left.merge(right, on=key, how="inner"): one row per pair of a left row and
\* a right row with equal keys, in the order of the left rows and, for one
\* left row, of the right rows.  A column other than the key that both frames
\* have is kept twice, under its name followed by the suffix _x or _y.
RECURSIVE MergePairs(_, _, _, _)
MergePairs(left, right, key, i) ==
    IF i > Len(left.rows) THEN <<>>
    ELSE LET l == left.rows[i]
             matches == Take(right.rows,
                             {j \in DOMAIN right.rows : right.rows[j][key] = l[key]}, 1)
         IN  [k \in DOMAIN matches |-> <<l, matches[k]>>]
             \o MergePairs(left, right, key, i + 1)

merge(left, right, key) ==
    LET overlap == (left.columns \cap right.columns) \ {key}
        x(c) == IF c \in overlap THEN c \o <<"_x">> ELSE c
        y(c) == IF c \in overlap THEN c \o <<"_y">> ELSE c
        left_cols == {x(c) : c \in left.columns}
        right_cols == {y(c) : c \in right.columns \ {key}}
        Row(l, r) == [c \in left_cols \cup right_cols |->
                        IF c \in left_cols
                        THEN l[CHOOSE k \in left.columns : x(k) = c]
                        ELSE r[CHOOSE k \in right.columns : y(k) = c]]
        pairs == MergePairs(left, right, key, 1)
    IN  DataFrame(left_cols \cup right_cols,
                  [k \in DOMAIN pairs |-> Row(pairs[k][1], pairs[k][2])])

\* no segment filter
all_countries(joined) == joined

\* joined[joined["country"] == "US"]
us_only(joined) ==
    DataFrame(joined.columns,
              Take(joined.rows,
                   {i \in DOMAIN joined.rows : joined.rows[i][country] = Str("US")}, 1))

\* signup_date handled as clean_events handles timestamp: parse, then drop
parse_signup_date_and_drop(joined) == dropna(parse_column(joined, signup_date), signup_date)

\* joined["signup_date"] = pd.to_datetime(joined["signup_date"], errors="coerce")
parse_signup_date(joined) == parse_column(joined, signup_date)

\* The call join_and_filter(events, users): the frame it returns and the count
\* it prints, or Raised on a KeyError (no user_id to join on, no country, no
\* signup_date).
join_and_filter(ev, us) ==
    IF user_id \notin ev.columns \/ user_id \notin us.columns THEN Raised
    ELSE
      LET joined == merge(ev, us, user_id)
      IN  IF ~({country, signup_date} \subseteq joined.columns) THEN Raised
          ELSE LET kept == us_only(joined)
               IN  [state |-> "returned",
                    df |-> parse_signup_date(kept),
                    filtered |-> Len(joined.rows) - Len(kept.rows)]

----------------------------------------------------------------------------
(* create_daily_summary *)

\* df["event_date"] = df["timestamp"].dt.date, an assignment to the frame
\* the caller passed
with_event_date(df) ==
    DataFrame(df.columns \cup {event_date},
              [i \in DOMAIN df.rows |->
                  [c \in df.columns \cup {event_date} |->
                      IF c = event_date THEN dt_date(df.rows[i][timestamp])
                      ELSE df.rows[i][c]]])

\* the order groupby sorts its keys in: by event_date, then by user_id
KeyBefore(a, b) ==
    \/ a[1].date < b[1].date
    \/ a[1].date = b[1].date /\ a[2].n < b[2].n

RECURSIVE SortKeys(_)
SortKeys(S) ==
    IF S = {} THEN <<>>
    ELSE LET first == CHOOSE k \in S : \A o \in S \ {k} : KeyBefore(k, o)
         IN  <<first>> \o SortKeys(S \ {first})

\* df.groupby(["event_date", "user_id"]).size().reset_index(name="event_count"):
\* one row per key, keys with a missing value left out, sorted by key
group_sizes(df) ==
    LET key(r) == <<r[event_date], r[user_id]>>
        keys == {key(df.rows[i]) : i \in DOMAIN df.rows}
        present == {k \in keys : ~isna(k[1]) /\ ~isna(k[2])}
        sorted == SortKeys(present)
        size(k) == Cardinality({i \in DOMAIN df.rows : key(df.rows[i]) = k})
    IN  DataFrame({event_date, user_id, event_count},
                  [n \in DOMAIN sorted |->
                      [c \in {event_date, user_id, event_count} |->
                          CASE c = event_date -> sorted[n][1]
                            [] c = user_id -> sorted[n][2]
                            [] OTHER -> Number(size(sorted[n]))]])

\* The call create_daily_summary(df): the summary it returns and df as the
\* call leaves it, or Raised (a KeyError, or .dt on a column that holds no
\* date-times).
create_daily_summary(df) ==
    IF ~({timestamp, user_id} \subseteq df.columns) THEN Raised
    ELSE IF \E i \in DOMAIN df.rows : df.rows[i][timestamp].t \notin {"datetime", "NaT"}
    THEN Raised
    ELSE [state |-> "returned",
          df |-> with_event_date(df),
          daily_summary |-> group_sizes(with_event_date(df))]

----------------------------------------------------------------------------
(* write_parquet *)

\* an output path this run has not written to, one it left a truncated file
\* at, and one that holds the whole of df
Untouched == [state |-> "untouched"]
Truncated == [state |-> "truncated"]
Written(df) == [state |-> "written", df |-> df]

\* write_parquet with its errors caught and ignored
write_parquet_errors_ignored(df, old) ==
    {[raised |-> FALSE, file |-> Written(df)],
     [raised |-> FALSE, file |-> old],
     [raised |-> FALSE, file |-> Truncated]}

\* The outcomes of write_parquet(df, path) with the path in state old:
\* df.to_parquet writes straight to the path, so it either completes, or
\* raises before the file is opened, or raises part-way through the file.
write_parquet(df, old) ==
    {[raised |-> FALSE, file |-> Written(df)],
     [raised |-> TRUE, file |-> old],
     [raised |-> TRUE, file |-> Truncated]}

----------------------------------------------------------------------------
(* The input files *)

EventColumns == {user_id, timestamp, event_type, metadata_source}
UserColumns == {user_id, country, signup_date}

EventRecord(u, ts, ty, m) ==
    [c \in EventColumns |->
        CASE c = user_id -> u
          [] c = timestamp -> ts
          [] c = event_type -> ty
          [] OTHER -> m]

UserRecord(u, co, sd) ==
    [c \in UserColumns |->
        CASE c = user_id -> u
          [] c = country -> co
          [] OTHER -> sd]

\* all sequences over S of length at most n
SeqUpTo(S, n) == UNION {[1..k -> S] : k \in 0..n}

\* pd.json_normalize of a list of records: the columns are the keys that
\* occur, so the empty list gives a frame with no columns at all
json_frames(records, n) ==
    {DataFrame(IF s = <<>> THEN {} ELSE EventColumns, s) : s \in SeqUpTo(records, n)}

\* pd.read_csv of a file with a header line: the columns are the header's
csv_frames(records, n) ==
    {DataFrame(UserColumns, s) : s \in SeqUpTo(records, n)}

\* the event records given to clean_events alone
CleanRecords ==
    {EventRecord(u, Str(ts), Str(ty), Str(m)) :
        u \in {None, Number(1)},
        ts \in {"2024-01-01T10:00:00Z", "2024-01-01T10:00:00+00:00", "not-a-date"},
        ty \in {"click", "view"},
        m \in {"web", "app"}}

\* the event records and user records of a whole run
RunRecords ==
    {EventRecord(Number(u), Str(ts), Str("click"), Str("web")) :
        u \in {1, 2},
        ts \in {"2024-01-01T10:00:00Z", "2024-01-01T23:00:00Z",
                "2024-01-02T00:00:00Z", "not-a-date"}}

RunUserRecords ==
    {UserRecord(Number(u), Str(p[1]), Str(p[2])) :
        u \in {1, 2},
        p \in {<<"US", "2023-01-01">>, <<"US", "unknown">>, <<"CA", "2023-02-01">>}}

----------------------------------------------------------------------------
(* main *)

\* main with the two writes in the other order
StepAfterWritesSwapped(step) ==
    CASE step = "load_events" -> "load_users"
      [] step = "load_users" -> "clean_events"
      [] step = "clean_events" -> "join_and_filter"
      [] step = "join_and_filter" -> "create_daily_summary"
      [] step = "create_daily_summary" -> "write_summary"
      [] step = "write_summary" -> "write_enriched"
      [] step = "write_enriched" -> "done"

\* the order of the calls in main
StepAfter(step) ==
    CASE step = "load_events" -> "load_users"
      [] step = "load_users" -> "clean_events"
      [] step = "clean_events" -> "join_and_filter"
      [] step = "join_and_filter" -> "create_daily_summary"
      [] step = "create_daily_summary" -> "write_enriched"
      [] step = "write_enriched" -> "write_summary"
      [] step = "write_summary" -> "done"

\* a call returned: main goes on to the next one
Return(step) ==
    /\ pc' = StepAfter(step)
    /\ trace' = Append(trace, <<step, "returned">>)

\* the process ends and main's locals with it: what is left of the run is
\* what it printed and what it made of the output paths
Exit ==
    /\ events' = NotRun
    /\ users' = NotRun
    /\ clean' = NotRun
    /\ enriched' = NotRun
    /\ daily_summary' = NotRun

\* a call raised: nothing in main catches it, the run ends
Raise(step) ==
    /\ pc' = "aborted"
    /\ trace' = Append(trace, <<step, "raised">>)
    /\ Exit

Init ==
    /\ pc = "load_events"
    /\ trace = <<>>
    /\ events = NotRun
    /\ users = NotRun
    /\ clean = NotRun
    /\ enriched = NotRun
    /\ daily_summary = NotRun
    /\ counts = NotRun
    /\ filtered = NotRun
    /\ files = [clean_events |-> Untouched, daily_summary |-> Untouched]
    /\ rerun = NotRun

\* events = load_json_df(RAW_EVENTS_PATH)
LoadEvents ==
    /\ pc = "load_events"
    /\ \/ /\ events' \in json_frames(RunRecords, MaxRunEvents)
          /\ Return("load_events")
          /\ UNCHANGED <<users, clean, enriched, daily_summary>>
       \/ Raise("load_events")
    /\ UNCHANGED <<counts, filtered, files, rerun>>

\* users = load_csv_df(USERS_PATH)
LoadUsers ==
    /\ pc = "load_users"
    /\ \/ /\ users' \in csv_frames(RunUserRecords, MaxRunUsers)
          /\ Return("load_users")
          /\ UNCHANGED <<events, clean, enriched, daily_summary>>
       \/ Raise("load_users")
    /\ UNCHANGED <<counts, filtered, files, rerun>>

\* clean = clean_events(events)
CleanEvents ==
    /\ pc = "clean_events"
    /\ LET r == clean_events(events)
       IN  IF r.state = "raised"
           THEN Raise("clean_events") /\ UNCHANGED counts
           ELSE /\ Return("clean_events")
                /\ clean' = r.df
                /\ counts' = Counts(r)
                /\ UNCHANGED <<events, users, enriched, daily_summary>>
    /\ UNCHANGED <<filtered, files, rerun>>

\* enriched = join_and_filter(clean, users)
JoinAndFilter ==
    /\ pc = "join_and_filter"
    /\ users # NotRun
    /\ LET r == join_and_filter(clean, users)
       IN  IF r.state = "raised"
           THEN Raise("join_and_filter") /\ UNCHANGED filtered
           ELSE /\ Return("join_and_filter")
                /\ enriched' = r.df
                /\ filtered' = r.filtered
                /\ UNCHANGED <<events, users, clean, daily_summary>>
    /\ UNCHANGED <<counts, files, rerun>>

\* daily_summary = create_daily_summary(enriched); the call assigns a column
\* to the frame that enriched names
CreateDailySummary ==
    /\ pc = "create_daily_summary"
    /\ LET r == create_daily_summary(enriched)
       IN  IF r.state = "raised"
           THEN Raise("create_daily_summary")
           ELSE /\ Return("create_daily_summary")
                /\ enriched' = r.df
                /\ daily_summary' = r.daily_summary
                /\ UNCHANGED <<events, users, clean>>
    /\ UNCHANGED <<counts, filtered, files, rerun>>

\* write_parquet(enriched, CLEAN_EVENTS_PATH)
WriteEnriched ==
    /\ pc = "write_enriched"
    /\ \E o \in write_parquet(enriched, files.clean_events) :
          /\ files' = [files EXCEPT !.clean_events = o.file]
          /\ IF o.raised
             THEN Raise("write_enriched")
             ELSE /\ Return("write_enriched")
                  /\ UNCHANGED <<events, users, clean, enriched, daily_summary>>
    /\ UNCHANGED <<counts, filtered, rerun>>

\* write_parquet(daily_summary, DAILY_SUMMARY_PATH), then main returns
WriteSummary ==
    /\ pc = "write_summary"
    /\ \E o \in write_parquet(daily_summary, files.daily_summary) :
          /\ files' = [files EXCEPT !.daily_summary = o.file]
          /\ IF o.raised
             THEN Raise("write_summary")
             ELSE Return("write_summary") /\ Exit
    /\ UNCHANGED <<counts, filtered, rerun>>

Next ==
    \/ LoadEvents
    \/ LoadUsers
    \/ CleanEvents
    \/ JoinAndFilter
    \/ CreateDailySummary
    \/ WriteEnriched
    \/ WriteSummary

Spec == Init /\ [][Next]_vars

----------------------------------------------------------------------------
(* clean_events on its own, and again on what it returned *)

InitClean ==
    /\ pc = "clean_events"
    /\ trace = <<>>
    /\ events \in json_frames(CleanRecords, MaxEvents)
    /\ users = NotRun
    /\ clean = NotRun
    /\ enriched = NotRun
    /\ daily_summary = NotRun
    /\ counts = NotRun
    /\ filtered = NotRun
    /\ files = [clean_events |-> Untouched, daily_summary |-> Untouched]
    /\ rerun = NotRun

\* clean_events(clean)
CleanAgain ==
    /\ clean # NotRun
    /\ rerun = NotRun
    /\ rerun' = clean_events(clean)
    /\ UNCHANGED <<pc, trace, events, users, clean, enriched, daily_summary,
                   counts, filtered, files>>

NextClean == CleanEvents \/ CleanAgain

SpecClean == InitClean /\ [][NextClean]_vars

----------------------------------------------------------------------------
(* What the claims are stated with *)

\* the input rows that pass the two drops of clean_events, and a row as
\* clean_events returns it
Survives(e) == ~isna(e[user_id]) /\ to_datetime(e[timestamp]) # NaT
Cleaned(e) == [e EXCEPT ![timestamp] = to_datetime(e[timestamp])]

\* equal on all non-metadata columns
SameIdentity(r, s) ==
    /\ r[user_id] = s[user_id]
    /\ r[timestamp] = s[timestamp]
    /\ r[event_type] = s[event_type]

\* input row i survives and no surviving row before it has its identity
FirstOccurrence(rows, i) ==
    /\ Survives(rows[i])
    /\ \A j \in 1..(i - 1) :
          Survives(rows[j]) => ~SameIdentity(Cleaned(rows[i]), Cleaned(rows[j]))

\* the k-th smallest element of a set of numbers
Nth(S, k) == CHOOSE i \in S : Cardinality({j \in S : j <= i}) = k

\* the event columns of an enriched row
EventPart(r) == [c \in EventColumns |-> r[c]]

RECURSIVE SumCounts(_, _)
SumCounts(rows, i) ==
    IF i > Len(rows) THEN 0 ELSE rows[i][event_count].n + SumCounts(rows, i + 1)

\* the calls of main, in order
Order == <<"load_events", "load_users", "clean_events", "join_and_filter",
           "create_daily_summary", "write_enriched", "write_summary">>

----------------------------------------------------------------------------
(* The claims *)

\* C1: every row clean_events returns has a user_id that is not missing and
\* a timestamp that is a parsed date-time, and is an input row that had both;
\* no input row with a missing user_id or an unparseable timestamp is in it.
C1_SurvivorsValid ==
    clean # NotRun =>
        \A k \in DOMAIN clean.rows :
            /\ ~isna(clean.rows[k][user_id])
            /\ clean.rows[k][timestamp].t = "datetime"
            /\ \E i \in DOMAIN events.rows :
                  Survives(events.rows[i]) /\ clean.rows[k] = Cleaned(events.rows[i])

\* a table with a missing user_id and an unparseable timestamp went in, and
\* a row came out
C1_Witness ==
    /\ clean # NotRun
    /\ Len(clean.rows) >= 1
    /\ \E i \in DOMAIN events.rows : events.rows[i][user_id] = None
    /\ \E i \in DOMAIN events.rows :
          /\ events.rows[i][user_id] # None
          /\ events.rows[i][timestamp] = Str("not-a-date")

\* C2: the rows clean_events returns are, in input order, exactly the first
\* occurrences among the surviving rows of each identity (the non-metadata
\* columns, the timestamp as parsed), whatever the metadata of the later
\* occurrences; no two of them have the same identity.
C2_FirstOccurrenceKept ==
    clean # NotRun =>
        LET firsts == {i \in DOMAIN events.rows : FirstOccurrence(events.rows, i)}
        IN  /\ Len(clean.rows) = Cardinality(firsts)
            /\ \A k \in DOMAIN clean.rows :
                  clean.rows[k] = Cleaned(events.rows[Nth(firsts, k)])
            /\ \A k1, k2 \in DOMAIN clean.rows :
                  k1 # k2 => ~SameIdentity(clean.rows[k1], clean.rows[k2])

\* two rows with one identity, spelled differently and with different
\* metadata, went in with a row of another identity between them
C2_Witness ==
    /\ clean # NotRun
    /\ Len(events.rows) = 3
    /\ Len(clean.rows) = 2
    /\ events.rows[1][timestamp] # events.rows[3][timestamp]
    /\ events.rows[1][metadata_source] # events.rows[3][metadata_source]
    /\ SameIdentity(Cleaned(events.rows[1]), Cleaned(events.rows[3]))
    /\ Survives(events.rows[1])
    /\ Survives(events.rows[2])

\* C3: clean_events on a table it returned returns the same table and
\* reports no row dropped at any of its three stages.
C3_Idempotent ==
    rerun # NotRun =>
        /\ rerun.state = "returned"
        /\ rerun.df = clean
        /\ rerun.initial_count = Len(clean.rows)
        /\ rerun.missing_user_id_count = 0
        /\ rerun.invalid_timestamps_count = 0
        /\ rerun.deduped_count = 0
        /\ rerun.remaining = Len(clean.rows)

\* the first call dropped rows at each stage and kept some, the second ran
C3_Witness ==
    /\ rerun # NotRun
    /\ Len(clean.rows) >= 1
    /\ counts.missing_user_id_count + counts.invalid_timestamps_count >= 1
    /\ counts.deduped_count >= 1

\* C9: the five counts clean_events prints are the number of input rows,
\* of rows with a missing user_id, of the other rows with an unparseable
\* timestamp, of the surviving rows that repeat an earlier identity, and of
\* rows returned; the first is the sum of the other four.
C9_CountsAccount ==
    (counts # NotRun /\ events # NotRun) =>
        LET rows == events.rows
            all == DOMAIN rows
        IN  /\ counts.initial_count = Len(rows)
            /\ counts.missing_user_id_count =
                  Cardinality({i \in all : isna(rows[i][user_id])})
            /\ counts.invalid_timestamps_count =
                  Cardinality({i \in all : /\ ~isna(rows[i][user_id])
                                           /\ to_datetime(rows[i][timestamp]) = NaT})
            /\ counts.deduped_count =
                  Cardinality({i \in all : Survives(rows[i]) /\ ~FirstOccurrence(rows, i)})
            /\ counts.remaining = Len(clean.rows)
            /\ counts.initial_count =
                  counts.missing_user_id_count + counts.invalid_timestamps_count
                  + counts.deduped_count + counts.remaining

\* a row with a missing user_id and an unparseable timestamp went in, with a
\* pair of duplicates
C9_Witness ==
    /\ counts # NotRun
    /\ events # NotRun
    /\ counts.deduped_count = 1
    /\ \E i \in DOMAIN events.rows :
          /\ events.rows[i][user_id] = None
          /\ events.rows[i][timestamp] = Str("not-a-date")

\* C4: every row join_and_filter returns is a cleaned event together with a
\* user record of the same user_id whose country is "US"; a cleaned event
\* that no user record with its user_id and the country "US" matches is in
\* no row.
C4_JoinedToUsUsers ==
    enriched # NotRun =>
        /\ \A k \in DOMAIN enriched.rows :
              /\ enriched.rows[k][country] = Str("US")
              /\ \E i \in DOMAIN clean.rows, j \in DOMAIN users.rows :
                    /\ EventPart(enriched.rows[k]) = clean.rows[i]
                    /\ users.rows[j][user_id] = clean.rows[i][user_id]
                    /\ users.rows[j][country] = enriched.rows[k][country]
                    /\ to_datetime(users.rows[j][signup_date]) = enriched.rows[k][signup_date]
        /\ \A i \in DOMAIN clean.rows :
              (~\E j \in DOMAIN users.rows :
                    /\ users.rows[j][user_id] = clean.rows[i][user_id]
                    /\ users.rows[j][country] = Str("US"))
              => ~\E k \in DOMAIN enriched.rows : EventPart(enriched.rows[k]) = clean.rows[i]

\* one cleaned event was kept and another, which has no user record or a
\* user record of the country "CA", is in no row
C4_Witness ==
    /\ enriched # NotRun
    /\ Len(enriched.rows) >= 1
    /\ \E i \in DOMAIN clean.rows :
          /\ \A k \in DOMAIN enriched.rows : EventPart(enriched.rows[k]) # clean.rows[i]
          /\ \/ \A j \in DOMAIN users.rows : users.rows[j][user_id] # clean.rows[i][user_id]
             \/ \E j \in DOMAIN users.rows :
                   /\ users.rows[j][user_id] = clean.rows[i][user_id]
                   /\ users.rows[j][country] = Str("CA")

\* C8: join_and_filter returns one row for every pair of a cleaned event and
\* a user record with its user_id and the country "US", with the signup_date
\* of the user record parsed, NaT when it does not parse, and no other row;
\* the cleaned events hold no row whose timestamp did not parse.
C8_SignupDateNeverDrops ==
    enriched # NotRun =>
        LET pairs == {p \in (DOMAIN clean.rows) \X (DOMAIN users.rows) :
                         /\ users.rows[p[2]][user_id] = clean.rows[p[1]][user_id]
                         /\ users.rows[p[2]][country] = Str("US")}
            from(p) == <<clean.rows[p[1]], to_datetime(users.rows[p[2]][signup_date])>>
            of(r) == <<EventPart(r), r[signup_date]>>
        IN  /\ Len(enriched.rows) = Cardinality(pairs)
            /\ \A p \in pairs :
                  Cardinality({k \in DOMAIN enriched.rows : of(enriched.rows[k]) = from(p)})
                  = Cardinality({q \in pairs : from(q) = from(p)})
            /\ \A i \in DOMAIN clean.rows : clean.rows[i][timestamp] # NaT

\* a row whose signup_date did not parse was returned, with NaT
C8_Witness ==
    /\ enriched # NotRun
    /\ \E k \in DOMAIN enriched.rows : enriched.rows[k][signup_date] = NaT
    /\ \E j \in DOMAIN users.rows : users.rows[j][signup_date] = Str("unknown")

\* C5: create_daily_summary returns one row for each pair of the calendar
\* date of the timestamp and the user_id that occurs in the enriched rows,
\* and no other row; its event_count is the number of enriched rows with the
\* pair, and the event_counts add up to the number of enriched rows.
C5_SummaryCounts ==
    daily_summary # NotRun =>
        LET key(r) == <<Date(r[timestamp].date), r[user_id]>>
            keys == {key(enriched.rows[i]) : i \in DOMAIN enriched.rows}
            rows == daily_summary.rows
            key_of(n) == <<rows[n][event_date], rows[n][user_id]>>
        IN  /\ daily_summary.columns = {event_date, user_id, event_count}
            /\ {key_of(n) : n \in DOMAIN rows} = keys
            /\ Len(rows) = Cardinality(keys)
            /\ \A n \in DOMAIN rows :
                  rows[n][event_count] =
                      Number(Cardinality({i \in DOMAIN enriched.rows :
                                             key(enriched.rows[i]) = key_of(n)}))
            /\ SumCounts(rows, 1) = Len(enriched.rows)

\* two events of one user on one day, at different times, were counted
\* in one row
C5_Witness ==
    /\ daily_summary # NotRun
    /\ Len(enriched.rows) = 2
    /\ enriched.rows[1][timestamp] # enriched.rows[2][timestamp]
    /\ Len(daily_summary.rows) = 1
    /\ daily_summary.rows[1][event_count] = Number(2)

\* C6: the calls of main happen in the one fixed order, each after the call
\* before it returned; a call that raised is the last call of the run; no
\* call happens twice; the run is done exactly when all seven calls have
\* returned, and no output path is touched before its write is reached.
C6_FixedOrder ==
    /\ Len(trace) <= Len(Order)
    /\ \A k \in DOMAIN trace : trace[k][1] = Order[k]
    /\ \A k \in DOMAIN trace : k < Len(trace) => trace[k][2] = "returned"
    /\ pc = "aborted" <=> (trace # <<>> /\ trace[Len(trace)][2] = "raised")
    /\ pc = "done" <=> (Len(trace) = Len(Order) /\ trace[Len(trace)][2] = "returned")
    /\ pc \notin {"aborted", "done"} => pc = Order[Len(trace) + 1]
    /\ files.clean_events # Untouched => Len(trace) >= 6
    /\ files.daily_summary # Untouched => Len(trace) >= 7
    /\ Len(trace) < 1 => events = NotRun
    /\ Len(trace) < 2 => users = NotRun
    /\ Len(trace) < 3 => clean = NotRun
    /\ Len(trace) < 4 => enriched = NotRun
    /\ Len(trace) < 5 => daily_summary = NotRun

\* the write of the enriched table raised: the run ended there
C6_Witness ==
    /\ pc = "aborted"
    /\ Len(trace) = 6
    /\ files.daily_summary = Untouched

C10_EnrichedWrittenAsJoined ==
    (files.clean_events.state = "written" /\ clean # NotRun) =>
        /\ files.clean_events.df = join_and_filter(clean, users).df
        /\ files.clean_events.df.columns = EventColumns \cup UserColumns

====
